---- MODULE Spec2Model ----
(***************************************************************************)
(* Model of pychemia/population/orbitaldftu.py: the OrbitalDFTU            *)
(* population (construction, add_random, new_entry, move) and the          *)
(* module-level matrix codec (dmatpawu2params, params2dmatpawu).           *)
(*                                                                         *)
(* A Python exception ends the call that raised it: every method of the    *)
(* model has a program counter and an "exc" field that holds the name of   *)
(* the exception the call ended with ("none" when it returned).            *)
(*                                                                         *)
(* Real numbers are held in fixed point: an eigenvalue or a delta is an    *)
(* integer number of 1/Scale units.  Occupations (np.round results cast    *)
(* to int) and the entries of the orthogonal matrices used here (signed    *)
(* permutation matrices, entries -1, 0, 1) are plain integers.             *)
(***************************************************************************)
EXTENDS Integers, Sequences, FiniteSets, TLC

\* ------------------------------------------------------------------ bounds
\* largest number of atoms with a non-zero spinat row
MaxNat == 3
\* longest num_electrons_spin / connections list handed to the constructor
MaxLen == 3
\* fixed-point resolution: reals are multiples of 1/Scale
Scale == 4
\* dimension of the matrices given to the codec
CodecDim == 2
\* largest number of entries kept by the persistence provider
MaxEntries == 2

\* ------------------------------------------------------------- sentinels
\* an attribute of self that no statement has assigned yet
NoAttr == -1
\* has_variable(name) is False for this input variable
Absent == 0

\* values the abinit input can carry
LpawuVals == {0, 1}
NsppolVals == {Absent, 1, 2, 3}
NspinorVals == {Absent, 1, 2}
NspdenVals == {Absent, 1, 2, 4}
\* per-block electron counts a caller can pass (negative, small, large)
ElectronVals == {-1, 1, 2}
\* connection tags a caller can pass
TagVals == {0, 1}

SeqsUpTo(S, n) == UNION {[1..k -> S] : k \in 0..n}

Range(s) == {s[k] : k \in DOMAIN s}

RECURSIVE Sum(_)
Sum(s) == IF s = <<>> THEN 0 ELSE Head(s) + Sum(Tail(s))

VARIABLES
    init_pc,     \* position inside OrbitalDFTU.__init__
    init_exc,    \* exception __init__ ended with
    input,       \* what InputVariables(abinit_input) answered so far
    self,        \* the attributes of the OrbitalDFTU object
    ar_pc,       \* position inside add_random
    ar_exc,      \* exception add_random ended with
    ar,          \* the locals of add_random
    db,          \* entries held by the persistence provider
    mv,          \* the last move call
    cd_pc,       \* position inside the codec call
    cd           \* the locals of dmatpawu2params / params2dmatpawu

vars == <<init_pc, init_exc, input, self, ar_pc, ar_exc, ar, db, mv, cd_pc, cd>>

popvars == <<init_pc, init_exc, input, self, ar_pc, ar_exc, ar>>
dbvars == <<db, mv>>
cdvars == <<cd_pc, cd>>

\* ------------------------------------------------- OrbitalDFTU.__init__

\* the object right after Population.__init__ (line 41)
self0 ==
    [maxlpawu |-> NoAttr, natpawu |-> NoAttr, nsppol |-> NoAttr,
     nspinor |-> NoAttr, nspden |-> NoAttr, nmatrices |-> NoAttr,
     num_electrons_spin |-> <<>>, connections |-> <<>>]

input0 == [spinat |-> FALSE, nsppol |-> Absent, nspinor |-> Absent, nspden |-> Absent]

ar0 ==
    [i |-> 0, matrices_defined |-> <<>>, matrix_i |-> <<>>, matrix_d |-> <<>>,
     eigvec |-> <<>>, nelect |-> 0, val |-> <<>>, ii |-> <<>>]

mv0 ==
    [pc |-> "idle", entry_id |-> 0, entry_jd |-> 0, factor |-> 0, exc |-> "none",
     ret |-> <<>>]

\* the ndim property
ndim == 2 * self.maxlpawu + 1

\* lines 52-61, spinat present: maxlpawu, and natpawu = number of spinat rows
\* with a non-zero norm
init_metadata ==
    /\ init_pc = "new"
    /\ \E l \in LpawuVals, n \in 0..MaxNat :
         /\ self' = [self EXCEPT !.maxlpawu = l, !.natpawu = n]
         /\ input' = [input EXCEPT !.spinat = TRUE]
    /\ init_pc' = "spin"
    /\ UNCHANGED <<init_exc, ar_pc, ar_exc, ar, db, mv, cd_pc, cd>>

\* lines 55-58: get_value('spinat') is None
init_no_spinat ==
    /\ init_pc = "new"
    /\ \E l \in LpawuVals : self' = [self EXCEPT !.maxlpawu = l]
    /\ init_pc' = "raised"
    /\ init_exc' = "ValueError"
    /\ UNCHANGED <<input, ar_pc, ar_exc, ar, db, mv, cd_pc, cd>>

\* lines 63-80: the three spin variables with their defaults
init_spin ==
    /\ init_pc = "spin"
    /\ \E a \in NsppolVals, b \in NspinorVals, c \in NspdenVals :
         LET nsppol == IF a # Absent THEN a ELSE 1
             nspinor == IF b # Absent THEN b ELSE 1
             nspden == IF c # Absent THEN c ELSE nsppol
         IN  /\ input' = [input EXCEPT !.nsppol = a, !.nspinor = b, !.nspden = c]
             /\ self' = [self EXCEPT !.nsppol = nsppol, !.nspinor = nspinor,
                                     !.nspden = nspden]
    /\ init_pc' = "classify"
    /\ UNCHANGED <<init_exc, ar_pc, ar_exc, ar, db, mv, cd_pc, cd>>

\* a classification that doubles in the non-magnetic row
nmatrices_swapped(nsppol, nspinor, nspden, natpawu) ==
    IF nsppol = 1 /\ nspinor = 1 /\ nspden = 1 THEN 2 * natpawu
    ELSE IF nsppol = 2 /\ nspinor = 1 /\ nspden = 2 THEN natpawu
    ELSE IF nsppol = 1 /\ nspinor = 1 /\ nspden = 2 THEN natpawu
    ELSE IF nsppol = 1 /\ nspinor = 2 /\ nspden = 4 THEN 2 * natpawu
    ELSE IF nsppol = 1 /\ nspinor = 2 /\ nspden = 1 THEN 2 * natpawu
    ELSE NoAttr

\* lines 82-107: the if/elif chain; it has no else, so any other combination
\* leaves self.nmatrices unassigned
nmatrices_of(nsppol, nspinor, nspden, natpawu) ==
    IF nsppol = 1 /\ nspinor = 1 /\ nspden = 1 THEN natpawu
    ELSE IF nsppol = 2 /\ nspinor = 1 /\ nspden = 2 THEN 2 * natpawu
    ELSE IF nsppol = 1 /\ nspinor = 1 /\ nspden = 2 THEN natpawu
    ELSE IF nsppol = 1 /\ nspinor = 2 /\ nspden = 4 THEN 2 * natpawu
    ELSE IF nsppol = 1 /\ nspinor = 2 /\ nspden = 1 THEN 2 * natpawu
    ELSE NoAttr

init_classify ==
    /\ init_pc = "classify"
    /\ self' = [self EXCEPT !.nmatrices =
                   nmatrices_of(self.nsppol, self.nspinor, self.nspden, self.natpawu)]
    /\ init_pc' = "electrons"
    /\ UNCHANGED <<init_exc, input, ar_pc, ar_exc, ar, db, mv, cd_pc, cd>>

\* lines 109-112: reading self.nmatrices when it was never assigned raises
\* AttributeError; a length mismatch raises ValueError
init_check_electrons ==
    /\ init_pc = "electrons"
    /\ \E e \in SeqsUpTo(ElectronVals, MaxLen) :
         /\ self' = [self EXCEPT !.num_electrons_spin = e]
         /\ IF self.nmatrices = NoAttr
              THEN init_pc' = "raised" /\ init_exc' = "AttributeError"
              ELSE IF Len(e) # self.nmatrices
                     THEN init_pc' = "raised" /\ init_exc' = "ValueError"
                     ELSE init_pc' = "connections" /\ UNCHANGED init_exc
    /\ UNCHANGED <<input, ar_pc, ar_exc, ar, db, mv, cd_pc, cd>>

\* lines 114-117: the test is again on len(self.num_electrons_spin)
init_check_connections ==
    /\ init_pc = "connections"
    /\ \E c \in SeqsUpTo(TagVals, MaxLen) :
         self' = [self EXCEPT !.connections = c]
    /\ IF Len(self.num_electrons_spin) # self.nmatrices
         THEN init_pc' = "raised" /\ init_exc' = "ValueError"
         ELSE init_pc' = "constructed" /\ UNCHANGED init_exc
    /\ UNCHANGED <<input, ar_pc, ar_exc, ar, db, mv, cd_pc, cd>>

\* ---------------------------------------------- OrbitalDFTU.add_random

\* np.zeros((rows, cols)) as a list of rows
zeros2(rows, cols) == [r \in 1..rows |-> [c \in 1..cols |-> 0]]
\* np.zeros((n, rows, cols))
zeros3(n, rows, cols) == [k \in 1..n |-> zeros2(rows, cols)]
\* n*[None]; None is written <<>>
nones(n) == [k \in 1..n |-> <<>>]

\* list(itertools.product(range(2), repeat=n)), last position varying fastest
RECURSIVE product01(_)
product01(n) ==
    IF n = 0 THEN << <<>> >>
    ELSE LET prev == product01(n - 1)
         IN  [k \in 1..(2 * Len(prev)) |-> Append(prev[(k + 1) \div 2], (k + 1) % 2)]

\* lines 153-157
ar_start ==
    /\ init_pc = "constructed"
    /\ ar_pc = "idle"
    /\ ar' = [ar0 EXCEPT !.matrix_i = nones(self.nmatrices),
                         !.matrix_d = nones(self.nmatrices),
                         !.eigvec = nones(self.nmatrices)]
    /\ ar_pc' = "loop"
    /\ UNCHANGED <<init_pc, init_exc, input, self, ar_exc, db, mv, cd_pc, cd>>

\* lines 159-161: the loop test and the membership test; self.connections[i]
\* raises IndexError when the list is shorter than nmatrices
ar_loop ==
    /\ ar_pc = "loop"
    /\ ar.i < self.nmatrices
    /\ IF ar.i + 1 > Len(self.connections)
         THEN ar_pc' = "done" /\ ar_exc' = "IndexError"
         ELSE /\ ar_pc' = IF self.connections[ar.i + 1] \notin Range(ar.matrices_defined)
                            THEN "fresh" ELSE "copy"
              /\ UNCHANGED ar_exc
    /\ UNCHANGED <<init_pc, init_exc, input, self, ar, db, mv, cd_pc, cd>>

\* lines 162-165: the three arrays are allocated anew, natpawu rows each
ar_alloc ==
    /\ ar_pc = "fresh"
    /\ ar' = [ar EXCEPT !.matrix_i = zeros2(self.natpawu, ndim),
                        !.matrix_d = zeros2(self.natpawu, ndim),
                        !.eigvec = zeros3(self.natpawu, ndim, ndim),
                        !.nelect = self.num_electrons_spin[ar.i + 1]]
    /\ ar_pc' = "enumerate"
    /\ UNCHANGED <<init_pc, init_exc, input, self, ar_exc, db, mv, cd_pc, cd>>

\* line 167: every {0,1}-vector of length ndim is enumerated and filtered
ar_enumerate ==
    /\ ar_pc = "enumerate"
    /\ ar' = [ar EXCEPT !.val =
                 SelectSeq(product01(ndim), LAMBDA x : Sum(x) = ar.nelect)]
    /\ ar_pc' = "draw"
    /\ UNCHANGED <<init_pc, init_exc, input, self, ar_exc, db, mv, cd_pc, cd>>

\* line 168: np.random.randint(0) raises ValueError
ar_draw ==
    /\ ar_pc = "draw"
    /\ IF Len(ar.val) = 0
         THEN ar_pc' = "done" /\ ar_exc' = "ValueError" /\ UNCHANGED ar
         ELSE /\ \E k \in 1..Len(ar.val) : ar' = [ar EXCEPT !.ii = ar.val[k]]
              /\ ar_pc' = "assign"
              /\ UNCHANGED ar_exc
    /\ UNCHANGED <<init_pc, init_exc, input, self, db, mv, cd_pc, cd>>

\* lines 169-170: ii is a tuple of itertools.product, and a tuple has no
\* flatten(): the right-hand side raises AttributeError before matrix_i[i] is
\* written.  Lines 171-181 are therefore never executed.
ar_assign ==
    /\ ar_pc = "assign"
    /\ ar_pc' = "done"
    /\ ar_exc' = "AttributeError"
    /\ UNCHANGED <<init_pc, init_exc, input, self, ar, db, mv, cd_pc, cd>>

\* lines 183-185 and 219, reached only when nmatrices = 0: data['R'] is then
\* the list 0*[None], and a list has no flatten()
ar_new_entry ==
    /\ ar_pc = "loop"
    /\ ~(ar.i < self.nmatrices)
    /\ ar_pc' = "done"
    /\ ar_exc' = "AttributeError"
    /\ UNCHANGED <<init_pc, init_exc, input, self, ar, db, mv, cd_pc, cd>>

\* ------------------------------------- persistence, new_entry and move

\* denominator of the factors handed to move: factor = f / FactorDen
FactorDen == 2
\* entries of the flat 'R' lists handed to new_entry, in units of 1/FactorDen
RVals == {-2, 0, 2}

\* Population.insert_entry: the entry is stored and its identifier returned;
\* identifiers are the positions 1, 2, ... of db
insert_entry(store, entry) == Append(store, entry)

\* Population.get_entry
get_entry(store, id) == store[id]

\* the flat lists a caller of new_entry can pass as data['R'], data['D'], data['O']
\* for the population at hand (ndarrays, so that flatten() exists)
DataVals ==
    LET n == self.nmatrices * ndim
    IN  [R : [1..(n * ndim) -> RVals], D : [1..n -> {0}], O : [1..n -> {0, 1}]]

\* lines 219-226: properties has the keys 'R', 'D' and 'O'
new_entry ==
    /\ init_pc = "constructed"
    /\ Len(db) < MaxEntries
    /\ \E data \in DataVals, active \in BOOLEAN :
         LET properties == [R |-> data.R, D |-> data.D, O |-> data.O]
             entry == [properties |-> properties, status |-> active]
         IN  db' = insert_entry(db, entry)
    /\ UNCHANGED <<init_pc, init_exc, input, self, ar_pc, ar_exc, ar, mv, cd_pc, cd>>

\* lines 299-300: entry_i['properties']['P'] raises KeyError, since the
\* properties of an entry are keyed 'R', 'D', 'O'; lines 301-303 are never
\* executed, nothing is written back and nothing is returned
move ==
    /\ init_pc = "constructed"
    /\ \E entry_id \in 1..Len(db), entry_jd \in 1..Len(db), f \in 0..FactorDen :
         LET entry_i == get_entry(db, entry_id)
         IN  mv' = [pc |-> "done", entry_id |-> entry_id, entry_jd |-> entry_jd,
                    factor |-> f,
                    exc |-> IF "P" \in DOMAIN entry_i.properties
                              THEN "none" ELSE "KeyError",
                    ret |-> <<>>]
    /\ UNCHANGED <<init_pc, init_exc, input, self, ar_pc, ar_exc, ar, db, cd_pc, cd>>

\* ---------------------------------------------------------- matrix codec

Perms(n) == {p \in [1..n -> 1..n] : \A a, b \in 1..n : a # b => p[a] # p[b]}

\* number of inversions of a permutation, for its sign
Inversions(p, n) == Cardinality({ab \in (1..n) \X (1..n) : ab[1] < ab[2] /\ p[ab[1]] > p[ab[2]]})

RECURSIVE Prod(_, _, _)
Prod(m, p, k) == IF k = 0 THEN 1 ELSE m[k][p[k]] * Prod(m, p, k - 1)

RECURSIVE SumOver(_, _)
SumOver(f, S) ==
    IF S = {} THEN 0
    ELSE LET x == CHOOSE y \in S : TRUE IN f[x] + SumOver(f, S \ {x})

\* np.linalg.det, by the Leibniz formula (exact on integer matrices)
det(m, n) ==
    LET term == [p \in Perms(n) |->
                   (IF Inversions(p, n) % 2 = 0 THEN 1 ELSE -1) * Prod(m, p, n)]
    IN  SumOver(term, Perms(n))

\* np.dot of two n x n matrices
dot(a, b, n) ==
    [r \in 1..n |-> [c \in 1..n |-> SumOver([k \in 1..n |-> a[r][k] * b[k][c]], 1..n)]]

\* np.diag of a vector
diag(v, n) == [r \in 1..n |-> [c \in 1..n |-> IF r = c THEN v[r] ELSE 0]]

\* lines 376-377: the identity with -1 at position (0, 0)
mirror(n) == [r \in 1..n |-> [c \in 1..n |-> IF r # c THEN 0 ELSE IF r = 1 THEN -1 ELSE 1]]

\* ndarray.flatten of an n x n matrix, row-major
flatten2(m, n) == [k \in 1..(n * n) |-> m[((k - 1) \div n) + 1][((k - 1) % n) + 1]]

RECURSIVE concat(_)
concat(ss) == IF ss = <<>> THEN <<>> ELSE Head(ss) \o concat(Tail(ss))

\* reshape((-1, n)) of a flat list
reshape2(flat, n) ==
    [r \in 1..(Len(flat) \div n) |-> [c \in 1..n |-> flat[(r - 1) * n + c]]]

\* reshape((-1, n, n)) of a flat list
reshape3(flat, n) ==
    [k \in 1..(Len(flat) \div (n * n)) |->
        [r \in 1..n |-> [c \in 1..n |-> flat[(k - 1) * n * n + (r - 1) * n + c]]]]

\* a rounding that truncates towards minus infinity instead of to the nearest
np_round_floor(x) == x \div Scale

\* np.round on a fixed-point value: nearest integer, a tie goes to the even one
np_round(x) ==
    LET q == x \div Scale
        r == x % Scale
    IN  IF 2 * r < Scale THEN q
        ELSE IF 2 * r > Scale THEN q + 1
        ELSE IF q % 2 = 0 THEN q ELSE q + 1

abs(x) == IF x < 0 THEN -x ELSE x

\* eigenvalues handed to the codec: -1.0 .. 2.0 in steps of 1/Scale
EigVals == (-Scale)..(2 * Scale)

\* the symmetric matrices handed to the codec: diagonal, so that the
\* eigenvectors are the signed permutation matrices and all arithmetic is exact
DiagMatrices == {diag(v, CodecDim) : v \in [1..CodecDim -> EigVals]}

\* np.linalg.eigh: eigenvalues in ascending order and, in the columns of v,
\* an eigenvector for each; every eigenvector is returned up to its sign
\* (and, for equal eigenvalues, in either order)
eigh(m, n) ==
    LET w(p) == [k \in 1..n |-> m[p[k]][p[k]]]
        sorted == {p \in Perms(n) : \A k \in 1..(n - 1) : w(p)[k] <= w(p)[k + 1]}
    IN  {[w |-> w(p),
          v |-> [r \in 1..n |-> [c \in 1..n |-> IF r = p[c] THEN s[c] ELSE 0]]] :
            p \in sorted, s \in [1..n -> {-1, 1}]}

cd0(dm) ==
    [dm |-> dm, eigval |-> <<>>, matrix_o |-> <<>>, matrix_d |-> <<>>,
     matrix_r |-> <<>>, params |-> [O |-> <<>>, D |-> <<>>, R |-> <<>>],
     reshaped |-> <<>>, exc |-> "none", result |-> <<>>]

\* lines 370-371 and 374: both eigh calls on a matrix give the same answer
enc_eigh ==
    /\ cd_pc = "encode"
    /\ \E e \in [1..Len(cd.dm) -> UNION {eigh(x, CodecDim) : x \in Range(cd.dm)}] :
         /\ \A k \in 1..Len(cd.dm) : e[k] \in eigh(cd.dm[k], CodecDim)
         /\ cd' = [cd EXCEPT !.eigval = [k \in 1..Len(cd.dm) |-> e[k].w],
                             !.matrix_r = [k \in 1..Len(cd.dm) |-> e[k].v]]
    /\ cd_pc' = "round"
    /\ UNCHANGED <<popvars, dbvars>>

\* lines 372-373
enc_round ==
    /\ cd_pc = "round"
    /\ LET matrix_o == [k \in 1..Len(cd.eigval) |->
                          [j \in 1..CodecDim |-> np_round(cd.eigval[k][j])]]
       IN  cd' = [cd EXCEPT !.matrix_o = matrix_o,
                            !.matrix_d = [k \in 1..Len(cd.eigval) |->
                                [j \in 1..CodecDim |->
                                    abs(cd.eigval[k][j] - matrix_o[k][j] * Scale)]]]
    /\ cd_pc' = "mirror"
    /\ UNCHANGED <<popvars, dbvars>>

\* lines 379-381, one matrix
so_n(r, n) == IF det(r, n) < 0 THEN dot(r, mirror(n), n) ELSE r

\* lines 376-381
enc_mirror ==
    /\ cd_pc = "mirror"
    /\ cd' = [cd EXCEPT !.matrix_r =
                 [k \in 1..Len(cd.matrix_r) |-> so_n(cd.matrix_r[k], CodecDim)]]
    /\ cd_pc' = "params"
    /\ UNCHANGED <<popvars, dbvars>>

\* lines 383-386
enc_return ==
    /\ cd_pc = "params"
    /\ cd' = [cd EXCEPT !.params =
                 [O |-> concat(cd.matrix_o), D |-> concat(cd.matrix_d),
                  R |-> concat([k \in 1..Len(cd.matrix_r) |->
                                   flatten2(cd.matrix_r[k], CodecDim)])]]
    /\ cd_pc' = "encoded"
    /\ UNCHANGED <<popvars, dbvars>>

\* params_reshaped, lines 328-331
params_reshaped(params, n) ==
    [matrix_o |-> reshape2(params.O, n), matrix_d |-> reshape2(params.D, n),
     matrix_r |-> reshape3(params.R, n)]

\* line 343, params2dmatpawu called on what dmatpawu2params returned
dec_reshape ==
    /\ cd_pc = "encoded"
    /\ cd' = [cd EXCEPT !.reshaped = params_reshaped(cd.params, CodecDim)]
    /\ cd_pc' = "decode"
    /\ UNCHANGED <<popvars, dbvars>>

\* line 345: the name iii is bound nowhere (line 343 binds matrix_o), so
\* np.array(iii, dtype=float) raises NameError; lines 346-355 are never
\* executed and no matrix is returned
dec_eigval ==
    /\ cd_pc = "decode"
    /\ cd' = [cd EXCEPT !.exc = "NameError"]
    /\ cd_pc' = "decoded"
    /\ UNCHANGED <<popvars, dbvars>>

\* ------------------------------------------------------------ population

Init ==
    /\ init_pc = "new"
    /\ init_exc = "none"
    /\ input = input0
    /\ self = self0
    /\ ar_pc = "idle"
    /\ ar_exc = "none"
    /\ ar = ar0
    /\ db = <<>>
    /\ mv = mv0
    /\ cd_pc = "idle"
    /\ cd = cd0(<<>>)

Next ==
    \/ init_metadata
    \/ init_no_spinat
    \/ init_spin
    \/ init_classify
    \/ init_check_electrons
    \/ init_check_connections
    \/ ar_start
    \/ ar_loop
    \/ ar_alloc
    \/ ar_enumerate
    \/ ar_draw
    \/ ar_assign
    \/ ar_new_entry

Spec == Init /\ [][Next]_vars

\* a population as the constructor leaves it: two correlated atoms, l = 0, no
\* spin variable in the input (the non-magnetic row)
InitMove ==
    /\ init_pc = "constructed"
    /\ init_exc = "none"
    /\ input = [input0 EXCEPT !.spinat = TRUE]
    /\ self = [maxlpawu |-> 0, natpawu |-> 2, nsppol |-> 1, nspinor |-> 1,
               nspden |-> 1, nmatrices |-> 2, num_electrons_spin |-> <<1, 1>>,
               connections |-> <<0, 1>>]
    /\ ar_pc = "idle"
    /\ ar_exc = "none"
    /\ ar = ar0
    /\ db = <<>>
    /\ mv = mv0
    /\ cd_pc = "idle"
    /\ cd = cd0(<<>>)

NextMove ==
    \/ new_entry
    \/ move

MoveSpec == InitMove /\ [][NextMove]_vars

\* the codec is a pair of module-level functions: no population is needed
InitCodec ==
    /\ init_pc = "new"
    /\ init_exc = "none"
    /\ input = input0
    /\ self = self0
    /\ ar_pc = "idle"
    /\ ar_exc = "none"
    /\ ar = ar0
    /\ db = <<>>
    /\ mv = mv0
    /\ cd_pc = "encode"
    /\ \E m \in DiagMatrices : cd = cd0(<<m>>)

NextCodec ==
    \/ enc_eigh
    \/ enc_round
    \/ enc_mirror
    \/ enc_return
    \/ dec_reshape
    \/ dec_eigval

CodecSpec == InitCodec /\ [][NextCodec]_vars

\* ------------------------------------------------------------ properties

\* the spin triple as the input file gives it, missing variables defaulted
\* (nsppol to 1, nspinor to 1, nspden to nsppol)
GivenNsppol == IF input.nsppol = Absent THEN 1 ELSE input.nsppol
GivenNspinor == IF input.nspinor = Absent THEN 1 ELSE input.nspinor
GivenNspden == IF input.nspden = Absent THEN GivenNsppol ELSE input.nspden

\* the case table: nsppol, nspinor, nspden, matrices per correlated atom
CaseTable == {<<1, 1, 1, 1>>, <<2, 1, 2, 2>>, <<1, 1, 2, 1>>, <<1, 2, 4, 2>>, <<1, 2, 1, 2>>}

Supported == \E row \in CaseTable :
    row[1] = GivenNsppol /\ row[2] = GivenNspinor /\ row[3] = GivenNspden

\* the constructor is past the classification of the spin triple
Classified ==
    \/ init_pc \in {"electrons", "connections", "constructed"}
    \/ init_pc = "raised" /\ input.spinat

\* every per-block electron count admits an occupation vector
Feasible == \A k \in 1..Len(self.num_electrons_spin) :
    self.num_electrons_spin[k] \in 0..ndim

\* both lists of the constructor have one element per block
WellFormed ==
    /\ Len(self.num_electrons_spin) = self.nmatrices
    /\ Len(self.connections) = self.nmatrices

\* block i is the first one carrying its connection tag
FirstOfTag(i) == \A j \in 1..(i - 1) : self.connections[j] # self.connections[i]

\* add_random has ended, by return or by exception, on a well-formed population
\* whose electron counts are all feasible
AddRandomEnded == ar_pc = "done" /\ WellFormed /\ Feasible

\* two different blocks carry the same connection tag
SharedTag == \E i, j \in 1..Len(self.connections) :
    i # j /\ self.connections[i] = self.connections[j]

\* C1: once add_random has ended on a well-formed, feasible population in which
\* two blocks share a connection tag, it has handed a genome to persistence, and
\* in that genome any two blocks with the same tag are identical in O, D and R.
C1_ConnectedBlocksIdentical ==
    (AddRandomEnded /\ SharedTag) =>
        /\ ar_exc = "none"
        /\ \A i, j \in 1..self.nmatrices :
             self.connections[i] = self.connections[j] =>
                /\ ar.matrix_i[i] = ar.matrix_i[j]
                /\ ar.matrix_d[i] = ar.matrix_d[j]
                /\ ar.eigvec[i] = ar.eigvec[j]

\* C2: at the end of add_random's generation, every block that is the first of
\* its connection tag holds an occupation vector whose sum is exactly that
\* block's num_electrons_spin.
C2_FreshBlockSum ==
    AddRandomEnded =>
        \A i \in 1..self.nmatrices :
            FirstOfTag(i) =>
                /\ i <= Len(ar.matrix_i)
                /\ Sum(ar.matrix_i[i]) = self.num_electrons_spin[i]

\* C3: on a well-formed, feasible population the O, D and R arrays add_random
\* works on hold exactly nmatrices blocks, and the index of the block being
\* generated is an index of those arrays.
C3_GenomeShape ==
    (ar_pc # "idle" /\ WellFormed /\ Feasible) =>
        /\ Len(ar.matrix_i) = self.nmatrices
        /\ Len(ar.matrix_d) = self.nmatrices
        /\ Len(ar.eigvec) = self.nmatrices
        /\ ar_pc \in {"enumerate", "draw", "assign"} => ar.i + 1 <= Len(ar.matrix_i)

\* no eigenvalue of the matrices given to the codec is an exact half-integer
NoHalfInteger == \A k \in 1..Len(cd.dm) : \A j \in 1..CodecDim :
    (2 * cd.dm[k][j][j]) % Scale # 0 \/ (2 * cd.dm[k][j][j]) % (2 * Scale) = 0

\* C4: decoding what dmatpawu2params returned for M gives M back, for every
\* symmetric M without an exact half-integer eigenvalue.
C4_RoundTrip ==
    (cd_pc = "decoded" /\ NoHalfInteger) => (cd.exc = "none" /\ cd.result = cd.dm)

\* C5: once the spin triple is classified, a triple of the case table gives
\* nmatrices = natpawu or 2*natpawu as the table says, missing variables taking
\* their defaults; (2,1,2) with natpawu = 3 gives 6.
C5_CaseTable ==
    Classified =>
        /\ \A row \in CaseTable :
             (row[1] = GivenNsppol /\ row[2] = GivenNspinor /\ row[3] = GivenNspden)
                => self.nmatrices = row[4] * self.natpawu
        /\ (GivenNsppol = 2 /\ GivenNspinor = 1 /\ GivenNspden = 2 /\ self.natpawu = 3)
                => self.nmatrices = 6

\* nsppol = 2 given, nspinor and nspden missing, three correlated atoms
C5_Witness ==
    /\ Classified
    /\ input.nsppol = 2 /\ input.nspinor = Absent /\ input.nspden = Absent
    /\ self.natpawu = 3
    /\ self.nmatrices = 6

\* C6: for a spin triple outside the case table the constructor has, as soon as
\* the triple is classified, failed with ConfigurationError; it never goes on
\* with nmatrices unset.
C6_UnsupportedRejected ==
    (Classified /\ ~Supported) =>
        /\ init_pc = "raised"
        /\ init_exc = "ConfigurationError"

\* C7: a constructed population has num_electrons_spin and connections of
\* length nmatrices, each.
C7_LengthsChecked ==
    init_pc = "constructed" =>
        /\ Len(self.num_electrons_spin) = self.nmatrices
        /\ Len(self.connections) = self.nmatrices

\* C8: an electron count above ndim, or negative, ends the generation of the
\* block with ValueError before the {0,1}-vectors are enumerated: whenever the
\* enumeration has run, and whenever an index is about to be drawn, the count
\* is feasible.
C8_CheckedBeforeEnumeration ==
    /\ ar_pc \in {"draw", "assign"} => ar.nelect \in 0..ndim
    /\ (ar_pc = "done" /\ ar.nelect \notin 0..ndim) => ar_exc = "ValueError"

\* R_a + factor * (R_b - R_a), element-wise, factor = f / FactorDen
interpolated(ra, rb, f) ==
    [k \in 1..Len(ra) |-> ra[k] + (f * (rb[k] - ra[k])) \div FactorDen]

\* C9: a move of entry A towards entry B stores (or returns) A's rotation block
\* as R_a + factor * (R_b - R_a), and leaves entry B and A's O and D as they were.
C9_MoveInterpolates ==
    [][mv' # mv =>
         LET a == mv'.entry_id
             b == mv'.entry_jd
             want == interpolated(db[a].properties.R, db[b].properties.R, mv'.factor)
         IN  /\ db'[a].properties.R = want \/ mv'.ret = want
             /\ db'[a].properties.O = db[a].properties.O
             /\ db'[a].properties.D = db[a].properties.D
             /\ a # b => db'[b] = db[b]]_vars

\* C10: every rotation matrix the module produces has determinant +1: those
\* dmatpawu2params returns, and, at the end of add_random, those of the blocks
\* that are the first of their connection tag.
C10_DetPositive ==
    /\ cd_pc \in {"params", "encoded", "decode", "decoded"} =>
          \A k \in 1..Len(cd.matrix_r) : det(cd.matrix_r[k], CodecDim) = 1
    /\ AddRandomEnded =>
          \A i \in 1..self.nmatrices :
              FirstOfTag(i) =>
                  /\ i <= Len(ar.eigvec)
                  /\ det(ar.eigvec[i], ndim) = 1

\* the half of C10 that concerns dmatpawu2params alone
EncodedDetPositive ==
    cd_pc \in {"params", "encoded", "decode", "decoded"} =>
        \A k \in 1..Len(cd.matrix_r) : det(cd.matrix_r[k], CodecDim) = 1

\* what eigh returned is an eigendecomposition, and stays one after the mirror
EighValid ==
    cd_pc \notin {"idle", "encode"} =>
        \A k \in 1..Len(cd.dm) :
            dot(cd.dm[k], cd.matrix_r[k], CodecDim)
                = dot(cd.matrix_r[k], diag(cd.eigval[k], CodecDim), CodecDim)

\* the codec is past lines 372-373: matrix_o and matrix_d are computed
Rounded == cd_pc \in {"mirror", "params", "encoded", "decode", "decoded"}

\* e, in 1/Scale units, is an exact half-integer
HalfInteger(e) == (2 * e) % Scale = 0 /\ (2 * e) % (2 * Scale) # 0

AddRandomDeltasZero ==
    \A k \in 1..Len(ar.matrix_d) : \A j \in 1..Len(ar.matrix_d[k]) :
        ar.matrix_d[k][j] = 0

====
